---- MODULE Spec2Model ----
(***************************************************************************)
(* Sanctuary Builder API (src/main.py): the handlers of the FastAPI        *)
(* application over a document store, and the two computations they hold:  *)
(* the streak statistics of progress_stats and the order total of          *)
(* create_order.                                                           *)
(*                                                                         *)
(* Values.  A calendar date is its ordinal (date.toordinal), so that       *)
(* "- timedelta(days=1)" is "- 1".  A JSON/Python value is a tagged        *)
(* record: an absent key is Missing, None is NoneV, a date string is       *)
(* DateStr(form, ord) where form tells how the text is written:            *)
(*   "iso"   zero padded YYYY-MM-DD, what date.isoformat() produces,       *)
(*   "short" the same date without zero padding, e.g. "2025-1-2", which    *)
(*           strptime("%Y-%m-%d") also accepts,                            *)
(*   "text"  any text strptime rejects, e.g. "not-a-date".                 *)
(* A float is Num(e8), its value counted in eighths, so that the floats of  *)
(* the model are exactly representable and float arithmetic on them is     *)
(* exact; NumStr(e8) is a string float() parses to that value, NanStr the  *)
(* string "nan" that it parses to NaN, Str(s) any other text.              *)
(***************************************************************************)
EXTENDS Integers, Sequences, FiniteSets, TLC

\* db: the module-level database handle, "None" when absent.
\* today: the ordinal of date.today().
\* progress, devotional, product, order: the store's collections, each the
\*   sequence of its documents in insertion order.
\* reqs: the complete_today requests that built their document, each with
\*   its payload, its document and its position (pc).
\* req, resp: the request answered last and its answer.
VARIABLES db, today, progress, devotional, product, order, reqs, req, resp

vars == <<db, today, progress, devotional, product, order, reqs, req, resp>>

store == <<progress, devotional, product, order>>

(***************************************************************************)
(* Bounds of the model.                                                    *)
(***************************************************************************)
MaxDay == 3

MaxRecs == 2

Days == 1..MaxDay

Users == {"u1", "u2"}

(***************************************************************************)
(* Values.                                                                 *)
(***************************************************************************)
Missing == [kind |-> "missing"]

NoneV == [kind |-> "None"]

DateStr(form, ord) == [kind |-> "str", form |-> form, ord |-> ord]

DateObj(ord) == [kind |-> "date", ord |-> ord]

Int_(n) == [kind |-> "int", val |-> n]

Num(e8) == [kind |-> "float", e8 |-> e8]

NumStr(e8) == [kind |-> "numstr", e8 |-> e8]

Str(s) == [kind |-> "text", s |-> s]

\* The text "nan", which float() accepts.
NanStr == [kind |-> "nanstr"]

\* A float with two decimals, counted in hundredths; the float NaN.
Money(cents) == [kind |-> "money", cents |-> cents]

NaN == [kind |-> "nan"]

\* date.isoformat(): the zero padded text of the date.
isoformat(ord) == DateStr("iso", ord)

\* The policy reward of one completion.
REWARD_POINTS == 10

(***************************************************************************)
(* Responses.                                                              *)
(***************************************************************************)
NoCall == [op |-> "none"]

NoResp == [status |-> 0]

Ok(body) == [status |-> 200, body |-> body]

HttpError(code, detail) == [status |-> code, detail |-> detail]

\* An exception no handler catches: the framework answers 500.
ServerError == HttpError(500, "Internal Server Error")

\* ensure_db: raises HTTPException(500) when the handle is absent.
DbNotAvailable == HttpError(500, "Database not available")

\* A check that never raises.
ensure_db_skipped == TRUE

ensure_db == db # "None"

(***************************************************************************)
(* The store collaborator (database.py).                                   *)
(***************************************************************************)
Matches(doc, flt) == \A f \in DOMAIN flt : f \in DOMAIN doc /\ doc[f] = flt[f]

Take(s, n) == IF Len(s) <= n THEN s ELSE SubSeq(s, 1, n)

\* get_documents(collection, filter): the documents matching an equality
\* filter, in insertion order.
get_documents(coll, flt) == SelectSeq(coll, LAMBDA doc : Matches(doc, flt))

\* get_documents(collection, filter, limit=n)
get_documents_limit(coll, flt, n) == Take(get_documents(coll, flt), n)

\* create_document(collection, doc): appends the document.
create_document(coll, doc) == Append(coll, doc)

\* The identifier create_document returns for the document it appended.
inserted_id(coll) == Len(coll) + 1

(***************************************************************************)
(* Root, health and schema endpoints.                                      *)
(***************************************************************************)
\* GET /
read_root ==
    /\ req' = [op |-> "read_root"]
    /\ resp' = Ok([message |-> "Sanctuary Builder Backend is running"])
    /\ UNCHANGED <<db, today, progress, devotional, product, order, reqs>>

\* db.list_collection_names(): the collections that hold documents.
list_collection_names ==
    SelectSeq(<<"devotional", "progress", "product", "order">>,
              LAMBDA n : \/ n = "devotional" /\ devotional # <<>>
                         \/ n = "progress" /\ progress # <<>>
                         \/ n = "product" /\ product # <<>>
                         \/ n = "order" /\ order # <<>>)

\* GET /test; listing the collections may raise, DATABASE_URL and
\* DATABASE_NAME may be set or not.
test_database(listing_raises, url_set, name_set) ==
    /\ req' = [op |-> "test_database"]
    /\ resp' = Ok([backend |-> "Running",
                   database |-> IF db = "None" THEN "Available but not initialized"
                                ELSE IF listing_raises THEN "Connected but Error"
                                ELSE "Connected & Working",
                   database_url |-> IF url_set THEN "Set" ELSE "Not Set",
                   database_name |-> IF name_set THEN "Set" ELSE "Not Set",
                   connection_status |-> IF db = "None" THEN "Not Connected" ELSE "Connected",
                   collections |-> IF db = "None" \/ listing_raises THEN <<>>
                                   ELSE Take(list_collection_names, 10)])
    /\ UNCHANGED <<db, today, progress, devotional, product, order, reqs>>

\* GET /schema
get_schema_overview ==
    /\ req' = [op |-> "get_schema_overview"]
    /\ resp' = Ok([collections |->
                     <<"user", "devotional", "progress", "reward", "product", "order">>])
    /\ UNCHANGED <<db, today, progress, devotional, product, order, reqs>>

(***************************************************************************)
(* Devotionals and products: bilingual documents and their localized view. *)
(***************************************************************************)
\* d.get(key): None for an absent key.
Get(d, key) == IF key \in DOMAIN d THEN d[key] ELSE NoneV

\* The other language fills in for an empty field.
Localized_fallback(d, key_en, key_zh, locale) ==
    IF locale = "en"
    THEN (IF Get(d, key_en) # NoneV THEN Get(d, key_en) ELSE Get(d, key_zh))
    ELSE (IF Get(d, key_zh) # NoneV THEN Get(d, key_zh) ELSE Get(d, key_en))

\* d.get("x_en") if locale == "en" else d.get("x_zh")
Localized(d, key_en, key_zh, locale) ==
    IF locale = "en" THEN Get(d, key_en) ELSE Get(d, key_zh)

\* The four localized fields of a devotional.
DevotionalView(d, date, locale) ==
    [date |-> date,
     title |-> Localized(d, "title_en", "title_zh", locale),
     passage |-> Localized(d, "passage_en", "passage_zh", locale),
     content |-> Localized(d, "content_en", "content_zh", locale),
     reflection_prompt |->
         Localized(d, "reflection_prompt_en", "reflection_prompt_zh", locale)]

\* The answer when today has no devotional.
NoDevotionalYet(locale) ==
    [date |-> isoformat(today),
     title |-> IF locale = "en" THEN Str("No devotional yet") ELSE Str("zh: no devotional yet"),
     passage |-> NoneV,
     content |-> IF locale = "en" THEN Str("Come back later.") ELSE Str("zh: come back later"),
     reflection_prompt |-> NoneV]

\* The "date" of the answer: the stored text, the text of a stored date
\* object, or today for a document without date.
DevotionalDate(d) ==
    LET v == Get(d, "date")
    IN IF v.kind = "str" THEN v
       ELSE IF v.kind = "date" THEN isoformat(v.ord)
       ELSE isoformat(today)

\* GET /api/devotionals/today
get_today_devotional(locale) ==
    LET docs == get_documents_limit(devotional, [date |-> isoformat(today)], 1)
    IN /\ req' = [op |-> "get_today_devotional", locale |-> locale]
       /\ resp' = IF ~ensure_db THEN DbNotAvailable
                  ELSE IF docs = <<>> THEN Ok(NoDevotionalYet(locale))
                  ELSE Ok(DevotionalView(docs[1], DevotionalDate(docs[1]), locale))
       /\ UNCHANGED <<db, today, progress, devotional, product, order, reqs>>

\* GET /api/devotionals?qdate=...
get_devotional_by_date(qdate, locale) ==
    LET docs == get_documents_limit(devotional, [date |-> qdate], 1)
    IN /\ req' = [op |-> "get_devotional_by_date", qdate |-> qdate, locale |-> locale]
       /\ resp' = IF ~ensure_db THEN DbNotAvailable
                  ELSE IF docs = <<>> THEN HttpError(404, "Devotional not found")
                  ELSE Ok(DevotionalView(docs[1], qdate, locale))
       /\ UNCHANGED <<db, today, progress, devotional, product, order, reqs>>

\* data = payload.model_dump(); data["date"] = payload.date.isoformat()
DevotionalData(payload) == [payload EXCEPT !.date = isoformat(payload.date.ord)]

\* POST /api/devotionals; cap bounds the devotionals of a run.
create_devotional(payload, cap) ==
    /\ req' = [op |-> "create_devotional", payload |-> payload]
    /\ IF ~ensure_db
       THEN /\ resp' = DbNotAvailable
            /\ UNCHANGED devotional
       ELSE /\ Len(devotional) < cap
            /\ devotional' = create_document(devotional, DevotionalData(payload))
            /\ resp' = Ok([id |-> inserted_id(devotional)])
    /\ UNCHANGED <<db, today, progress, product, order, reqs>>

\* One entry of the product list.
ProductView(d, locale) ==
    [sku |-> Get(d, "sku"),
     title |-> Localized(d, "title_en", "title_zh", locale),
     description |-> Localized(d, "description_en", "description_zh", locale),
     price |-> Get(d, "price"),
     currency |-> IF "currency" \in DOMAIN d THEN d.currency ELSE "USD",
     media_urls |-> IF "media_urls" \in DOMAIN d THEN d.media_urls ELSE <<>>,
     status |-> IF "status" \in DOMAIN d THEN d.status ELSE "active"]

\* GET /api/products
list_products(locale) ==
    LET docs == get_documents(product, <<>>)
    IN /\ req' = [op |-> "list_products", locale |-> locale]
       /\ resp' = IF ~ensure_db THEN DbNotAvailable
                  ELSE Ok([k \in 1..Len(docs) |-> ProductView(docs[k], locale)])
       /\ UNCHANGED <<db, today, progress, devotional, product, order, reqs>>

\* POST /api/products; cap bounds the products of a run.
create_product(payload, cap) ==
    /\ req' = [op |-> "create_product", payload |-> payload]
    /\ IF ~ensure_db
       THEN /\ resp' = DbNotAvailable
            /\ UNCHANGED product
       ELSE /\ Len(product) < cap
            /\ product' = create_document(product, payload)
            /\ resp' = Ok([id |-> inserted_id(product)])
    /\ UNCHANGED <<db, today, progress, devotional, order, reqs>>

(***************************************************************************)
(* complete_today: POST /api/progress/complete.  Handlers run on a thread  *)
(* pool, so requests interleave: a request first passes ensure_db and      *)
(* builds its document (reading the clock when no date is given), then     *)
(* inserts it.  reqs holds the requests that passed the first step.        *)
(***************************************************************************)
\* The date of every completion is the current day, the payload ignored.
TargetDate_clockOnly(date) == isoformat(today)

\* (payload.date or date.today()).isoformat()
TargetDate(date) ==
    IF date = NoneV THEN isoformat(today) ELSE isoformat(date.ord)

\* The document of a completion.
CompletionDoc(user_id, target_date) ==
    [user_id |-> user_id, date |-> target_date, completed |-> TRUE,
     points_earned |-> Int_(REWARD_POINTS)]

CompleteCall(user_id, date) ==
    [op |-> "complete_today", user_id |-> user_id, date |-> date]

\* ensure_db, target_date and doc; cap bounds the requests of a run.
complete_today_begin(user_id, date, cap) ==
    /\ Len(reqs) < cap
    /\ IF ~ensure_db
       THEN /\ req' = CompleteCall(user_id, date)
            /\ resp' = DbNotAvailable
            /\ UNCHANGED reqs
       ELSE /\ reqs' = Append(reqs, [user_id |-> user_id, date |-> date,
                                     doc |-> CompletionDoc(user_id, TargetDate(date)),
                                     pc |-> "insert"])
            /\ UNCHANGED <<req, resp>>
    /\ UNCHANGED <<db, today, progress, devotional, product, order>>

\* One progress document per user: the new one takes the place of the old.
complete_today_insert_replace(k) ==
    /\ reqs[k].pc = "insert"
    /\ progress' = Append(SelectSeq(progress,
                              LAMBDA r : r.user_id # reqs[k].doc.user_id),
                          reqs[k].doc)
    /\ reqs' = [reqs EXCEPT ![k].pc = "done"]
    /\ req' = CompleteCall(reqs[k].user_id, reqs[k].date)
    /\ resp' = Ok([id |-> inserted_id(progress), points_earned |-> REWARD_POINTS])
    /\ UNCHANGED <<db, today, devotional, product, order>>

\* inserted_id = create_document("progress", doc); return
complete_today_insert(k) ==
    /\ reqs[k].pc = "insert"
    /\ progress' = create_document(progress, reqs[k].doc)
    /\ reqs' = [reqs EXCEPT ![k].pc = "done"]
    /\ req' = CompleteCall(reqs[k].user_id, reqs[k].date)
    /\ resp' = Ok([id |-> inserted_id(progress), points_earned |-> REWARD_POINTS])
    /\ UNCHANGED <<db, today, devotional, product, order>>

\* Midnight: date.today() moves on.
Tick ==
    /\ today < MaxDay
    /\ today' = today + 1
    /\ UNCHANGED <<db, progress, devotional, product, order, reqs, req, resp>>

(***************************************************************************)
(* progress_stats: the streak statistics.                                  *)
(***************************************************************************)
\* A lenient parser: any text becomes some date.
parse_d_lenient(d) ==
    IF d.kind = "str" THEN DateObj(d.ord)
    ELSE IF d.kind = "date" THEN d ELSE NoneV

\* parse_d: a date for a string strptime accepts or a date object, None
\* for anything else (strptime's ValueError is caught).
parse_d(d) ==
    IF d.kind = "str"
    THEN IF d.form \in {"iso", "short"} THEN DateObj(d.ord) ELSE NoneV
    ELSE IF d.kind = "date" THEN d ELSE NoneV

\* items = [i for i in items if parse_d(i.get("date")) is not None]
FilterParsed(items) == SelectSeq(items, LAMBDA i : parse_d(i.date) # NoneV)

RECURSIVE InsertByDate(_, _)
InsertByDate(sorted, i) ==
    IF sorted = <<>> THEN <<i>>
    ELSE IF parse_d(sorted[Len(sorted)].date).ord <= parse_d(i.date).ord
         THEN Append(sorted, i)
         ELSE Append(InsertByDate(SubSeq(sorted, 1, Len(sorted) - 1), i),
                     sorted[Len(sorted)])

\* items.sort(key=lambda x: parse_d(x.get("date"))): a stable sort.
RECURSIVE SortByDate(_)
SortByDate(items) ==
    IF items = <<>> THEN <<>>
    ELSE InsertByDate(SortByDate(SubSeq(items, 1, Len(items) - 1)),
                      items[Len(items)])

\* The dates of all records, the completed flag ignored.
CompletedDates_anyFlag(items) ==
    {parse_d(items[k].date).ord : k \in 1..Len(items)}

\* {parse_d(i.get("date")) for i in items if i.get("completed")}
CompletedDates(items) ==
    {parse_d(items[k].date).ord : k \in {j \in 1..Len(items) : items[j].completed}}

\* A streak that forgives gaps: the completed days up to day_ptr.
StreakFrom_gaps(day_ptr, completed_dates) ==
    Cardinality({d \in completed_dates : d <= day_ptr})

\* while day_ptr in completed_dates: streak += 1; day_ptr -= one day
RECURSIVE StreakFrom(_, _)
StreakFrom(day_ptr, completed_dates) ==
    IF day_ptr \in completed_dates
    THEN 1 + StreakFrom(day_ptr - 1, completed_dates)
    ELSE 0

\* Points of completed records only.
PointsOf_completedOnly(i) ==
    IF i.points_earned = Missing \/ ~i.completed THEN 0 ELSE i.points_earned.val

\* int(i.get("points_earned", 0))
PointsOf(i) == IF i.points_earned = Missing THEN 0 ELSE i.points_earned.val

\* sum(int(i.get("points_earned", 0)) for i in items)
RECURSIVE SumPoints(_)
SumPoints(items) ==
    IF items = <<>> THEN 0
    ELSE PointsOf(items[1]) + SumPoints(Tail(items))

\* The body of progress_stats after the query.
ComputeStats(fetched, day) ==
    LET items == SortByDate(FilterParsed(fetched))
        completed_dates == CompletedDates(items)
    IN [days_completed |-> Cardinality(completed_dates),
        current_streak |-> StreakFrom(day, completed_dates),
        total_points   |-> SumPoints(items)]

\* GET /api/progress/stats
progress_stats(user_id) ==
    /\ req' = [op |-> "progress_stats", user_id |-> user_id]
    /\ resp' = IF ~ensure_db THEN DbNotAvailable
               ELSE Ok(ComputeStats(get_documents(progress, [user_id |-> user_id]), today))
    /\ UNCHANGED <<db, today, progress, devotional, product, order, reqs>>

(***************************************************************************)
(* create_order: POST /api/orders.  Amounts: qty and price in eighths,     *)
(* their products and the running total in sixty-fourths, the rounded      *)
(* total_amount in hundredths; a float is NaN or has such a value.         *)
(***************************************************************************)
Raised == [ok |-> FALSE]

\* float(v): the value of a number or of a numeric string, NaN for the text
\* "nan"; ValueError for other text, TypeError for None.
to_float(v) ==
    IF v.kind \in {"float", "numstr"} THEN [ok |-> TRUE, nan |-> FALSE, e8 |-> v.e8]
    ELSE IF v.kind = "nanstr" THEN [ok |-> TRUE, nan |-> TRUE, e8 |-> 0]
    ELSE Raised

\* item.get("qty", 1)
ItemQty(item) == IF item.qty = Missing THEN Num(8) ELSE item.qty

\* item.get("price", 0)
ItemPrice(item) == IF item.price = Missing THEN Num(0) ELSE item.price

\* total + qty * price on floats: NaN when any of the three is NaN.
AddProduct(total, qty, price) ==
    [nan |-> total.nan \/ qty.nan \/ price.nan,
     t64 |-> total.t64 + qty.e8 * price.e8]

\* total = 0.0
ZeroTotal == [nan |-> FALSE, t64 |-> 0]

\* The loop over payload.items: total += qty * price; a conversion that
\* raises ends the handler.
RECURSIVE SumItems(_, _)
SumItems(items, total) ==
    IF items = <<>> THEN [ok |-> TRUE, total |-> total]
    ELSE LET qty == to_float(ItemQty(items[1]))
         IN IF ~qty.ok THEN Raised
            ELSE LET price == to_float(ItemPrice(items[1]))
                 IN IF ~price.ok THEN Raised
                    ELSE SumItems(Tail(items), AddProduct(total, qty, price))

\* Hundredths cut off instead of rounded.
round2_truncate(t64) == (t64 * 100) \div 64

\* round(x, 2) of a finite float: the nearest hundredth of its exact value,
\* a tie going to the even hundredth.
round2(t64) ==
    LET q == (t64 * 100) \div 64
        r == (t64 * 100) % 64
    IN IF 2 * r < 64 THEN q
       ELSE IF 2 * r > 64 THEN q + 1
       ELSE IF q % 2 = 0 THEN q ELSE q + 1

\* round(total, 2): NaN stays NaN.
RoundTotal(total) == IF total.nan THEN NaN ELSE Money(round2(total.t64))

\* The order document.
OrderRecord(payload, total) ==
    [user_id |-> payload.user_id, items |-> payload.items,
     total_amount |-> RoundTotal(total), currency |-> payload.currency,
     status |-> "pending"]

\* The answer of create_order; a NaN total_amount cannot be written as JSON
\* and the framework answers 500 instead.
OrderCreated(id, record) ==
    IF record.total_amount = NaN THEN ServerError
    ELSE Ok([id |-> id, total_amount |-> record.total_amount])

\* POST /api/orders; cap bounds the orders of a run.
create_order(payload, cap) ==
    LET sum == SumItems(payload.items, ZeroTotal)
    IN /\ req' = [op |-> "create_order", payload |-> payload]
       /\ IF ~ensure_db
          THEN /\ resp' = DbNotAvailable
               /\ UNCHANGED order
          ELSE IF ~sum.ok
          THEN /\ resp' = ServerError
               /\ UNCHANGED order
          ELSE /\ Len(order) < cap
               /\ order' = create_document(order, OrderRecord(payload, sum.total))
               /\ resp' = OrderCreated(inserted_id(order),
                                       OrderRecord(payload, sum.total))
       /\ UNCHANGED <<db, today, progress, devotional, product, reqs>>

(***************************************************************************)
(* The statistics over arbitrary stored records: the store holds any      *)
(* records, legacy ones with unparsable or absent dates included.          *)
(***************************************************************************)
DateValues ==
    {DateStr(f, d) : f \in {"iso", "short"}, d \in Days}
        \cup {DateStr("text", 0), Missing}

PointValues == {Missing, Int_(REWARD_POINTS)}

\* Any record for the first user; for the other user the records the API
\* writes (complete_today).
ProgressDocs ==
    [user_id : {"u1"}, date : DateValues, completed : BOOLEAN,
     points_earned : PointValues]
        \cup [user_id : Users \ {"u1"}, date : {isoformat(d) : d \in Days},
              completed : {TRUE}, points_earned : {Int_(REWARD_POINTS)}]

RECURSIVE SeqsUpTo(_, _)
SeqsUpTo(S, n) ==
    IF n = 0 THEN {<<>>}
    ELSE LET shorter == SeqsUpTo(S, n - 1)
         IN shorter \cup {Append(s, x) : s \in {t \in shorter : Len(t) = n - 1}, x \in S}

InitStats ==
    /\ db = "up"
    /\ today \in Days
    /\ progress \in SeqsUpTo(ProgressDocs, MaxRecs)
    /\ devotional = <<>>
    /\ product = <<>>
    /\ order = <<>>
    /\ reqs = <<>>
    /\ req = NoCall
    /\ resp = NoResp

NextStats == \E u \in Users : progress_stats(u)

SpecStats == InitStats /\ [][NextStats]_vars

(***************************************************************************)
(* Completions recorded through the API, interleaved, from an empty store. *)
(***************************************************************************)
MaxReqs == 2

PayloadDates == {NoneV} \cup {DateObj(d) : d \in Days}

InitProgress ==
    /\ db = "up"
    /\ today = 1
    /\ progress = <<>>
    /\ devotional = <<>>
    /\ product = <<>>
    /\ order = <<>>
    /\ reqs = <<>>
    /\ req = NoCall
    /\ resp = NoResp

NextProgress ==
    \/ \E u \in Users, d \in PayloadDates : complete_today_begin(u, d, MaxReqs)
    \/ \E k \in 1..Len(reqs) : complete_today_insert(k)
    \/ \E u \in Users : progress_stats(u)
    \/ Tick

SpecProgress == InitProgress /\ [][NextProgress]_vars

(***************************************************************************)
(* Orders: items of {sku, qty, price} with absent, numeric and             *)
(* numeric-text fields.                                                    *)
(***************************************************************************)
MaxItems == 2

MaxOrders == 2

\* {"qty": "1.5", "price": 0.125}, {"price": 0.625}, {"qty": 1.5}: the
\* amounts 0.1875, 0.625 and 0, whose sums round up, round down and tie both
\* ways.
ItemValues ==
    {[sku |-> "a", qty |-> NumStr(12), price |-> Num(1)],
     [sku |-> "b", qty |-> Missing, price |-> Num(5)],
     [sku |-> "c", qty |-> Num(12), price |-> Missing]}

\* {"qty": "abc", "price": 0.125}, {"qty": "nan", "price": 0.125}: items
\* whose qty is no number.
BadItemValues ==
    {[sku |-> "d", qty |-> Str("abc"), price |-> Num(1)],
     [sku |-> "e", qty |-> NanStr, price |-> Num(1)]}

OrderPayloads ==
    [user_id : {"u1"}, items : SeqsUpTo(ItemValues, MaxItems), currency : {"USD"}]

InitOrder ==
    /\ db = "up"
    /\ today = 1
    /\ progress = <<>>
    /\ devotional = <<>>
    /\ product = <<>>
    /\ order = <<>>
    /\ reqs = <<>>
    /\ req = NoCall
    /\ resp = NoResp

NextOrder == \E p \in OrderPayloads : create_order(p, MaxOrders)

SpecOrder == InitOrder /\ [][NextOrder]_vars

(***************************************************************************)
(* Content: devotionals and products created and read through the API.     *)
(***************************************************************************)
MaxDevotionals == 1

MaxProducts == 1

Locales == {"en", "zh"}

\* A fully bilingual devotional, and one whose optional fields exist in one
\* language only.
DevotionalPayloads ==
    [date : {DateObj(d) : d \in Days},
     title_en : {Str("Grace")}, title_zh : {Str("zh: Grace")},
     passage_en : {Str("John 1")}, passage_zh : {Str("zh: John 1")},
     content_en : {Str("Text")}, content_zh : {Str("zh: Text")},
     reflection_prompt_en : {Str("Why?")}, reflection_prompt_zh : {Str("zh: Why?")}]
        \cup
    [date : {DateObj(d) : d \in Days},
     title_en : {Str("Hope")}, title_zh : {Str("zh: Hope")},
     passage_en : {Str("Psalm 2")}, passage_zh : {NoneV},
     content_en : {Str("Body")}, content_zh : {Str("zh: Body")},
     reflection_prompt_en : {NoneV}, reflection_prompt_zh : {Str("zh: How?")}]

\* The query texts: the padded and the unpadded text of a day.
QueryDates == {DateStr(f, d) : f \in {"iso", "short"}, d \in Days}

ProductPayloads ==
    [sku : {"bk-1"}, title_en : {Str("Book")}, title_zh : {Str("zh: Book")},
     description_en : {Str("A book"), NoneV}, description_zh : {Str("zh: A book")},
     price : {Num(80)}, currency : {"USD"}, categories : {<<>>},
     media_urls : {<<>>}, attributes : {<<>>}, status : {"active"}]
        \cup
    [sku : {"cd-2"}, title_en : {Str("Album")}, title_zh : {Str("zh: Album")},
     description_en : {Str("Songs")}, description_zh : {NoneV},
     price : {Num(12)}, currency : {"CNY"}, categories : {<<>>},
     media_urls : {<<>>}, attributes : {<<>>}, status : {"hidden"}]

InitContent ==
    /\ db = "up"
    /\ today = 1
    /\ progress = <<>>
    /\ devotional = <<>>
    /\ product = <<>>
    /\ order = <<>>
    /\ reqs = <<>>
    /\ req = NoCall
    /\ resp = NoResp

NextContent ==
    \/ \E p \in DevotionalPayloads : create_devotional(p, MaxDevotionals)
    \/ \E l \in Locales : get_today_devotional(l)
    \/ \E q \in QueryDates, l \in Locales : get_devotional_by_date(q, l)
    \/ \E p \in ProductPayloads : create_product(p, MaxProducts)
    \/ \E l \in Locales : list_products(l)
    \/ Tick

SpecContent == InitContent /\ [][NextContent]_vars

(***************************************************************************)
(* The whole API from an empty store, with or without a database handle,   *)
(* on one day.                                                             *)
(***************************************************************************)
ApiDocs == 1

ApiReqs == 2

ApiDevotionals ==
    {p \in DevotionalPayloads : p.date = DateObj(1) /\ p.passage_zh = NoneV}

ApiProducts == {p \in ProductPayloads : p.sku = "cd-2"}

ApiOrders ==
    [user_id : {"u1"},
     items : {<<i>> : i \in {j \in ItemValues : j.sku = "a"} \cup BadItemValues},
     currency : {"USD"}]

Init ==
    /\ db \in {"None", "up"}
    /\ today = 1
    /\ progress = <<>>
    /\ devotional = <<>>
    /\ product = <<>>
    /\ order = <<>>
    /\ reqs = <<>>
    /\ req = NoCall
    /\ resp = NoResp

Next ==
    \/ read_root
    \/ \E r, u, n \in BOOLEAN : test_database(r, u, n)
    \/ get_schema_overview
    \/ \E l \in Locales : get_today_devotional(l)
    \/ \E l \in Locales : get_devotional_by_date(isoformat(1), l)
    \/ \E p \in ApiDevotionals : create_devotional(p, ApiDocs)
    \/ \E d \in {NoneV, DateObj(2)} : complete_today_begin("u1", d, ApiReqs)
    \/ \E k \in 1..Len(reqs) : complete_today_insert(k)
    \/ progress_stats("u1")
    \/ \E l \in Locales : list_products(l)
    \/ \E p \in ApiProducts : create_product(p, ApiDocs)
    \/ \E p \in ApiOrders : create_order(p, ApiDocs)

Spec == Init /\ [][Next]_vars

(***************************************************************************)
(* Claims about the statistics (SpecStats).                                *)
(***************************************************************************)
StatsAnswered == req.op = "progress_stats" /\ resp.status = 200

\* The text of a stored date names a calendar day.
IsCalendarDate(v) == v.kind = "str" /\ v.form \in {"iso", "short"}

\* The stored records of user u whose date names a calendar day.
ValidRecs(u) ==
    {k \in 1..Len(progress) :
        progress[k].user_id = u /\ IsCalendarDate(progress[k].date)}

\* User u has a record with completed=true on day d.
HasCompleted(u, d) ==
    \E k \in ValidRecs(u) : progress[k].completed /\ progress[k].date.ord = d

\* C1: current_streak is the number N such that each of the days today,
\* today-1, ..., today-(N-1) has a completed record of the user and the day
\* today-N has none; it is 0 whenever today has no completed record.
C1_CurrentStreak ==
    StatsAnswered =>
        LET N == resp.body.current_streak
        IN /\ N >= 0
           /\ \A i \in 0..(N - 1) : HasCompleted(req.user_id, today - i)
           /\ ~HasCompleted(req.user_id, today - N)
           /\ (~HasCompleted(req.user_id, today) => N = 0)

C1_Witness ==
    /\ StatsAnswered
    /\ resp.body.current_streak = 2
    /\ HasCompleted(req.user_id, today - 1)

\* C2: days_completed is the number of distinct calendar days with at least
\* one completed record of the user; same-day records count once and
\* records with completed=false do not count.
C2_DaysCompleted ==
    StatsAnswered =>
        resp.body.days_completed =
            Cardinality({d \in Days : HasCompleted(req.user_id, d)})

C2_Witness ==
    /\ StatsAnswered
    /\ resp.body.days_completed = 1
    /\ \E j, k \in ValidRecs(req.user_id) :
          /\ j # k
          /\ progress[j].completed /\ progress[k].completed
          /\ progress[j].date.ord = progress[k].date.ord
          /\ progress[j].date.form # progress[k].date.form

RECURSIVE PointsOver(_)
PointsOver(ks) ==
    IF ks = {} THEN 0
    ELSE LET k == CHOOSE x \in ks : TRUE
         IN (IF progress[k].points_earned = Missing THEN 0
             ELSE progress[k].points_earned.val) + PointsOver(ks \ {k})

\* C3: total_points is the sum of points_earned over all records of the user
\* whose day names a calendar date, completed or not, with no
\* de-duplication by day.
C3_TotalPoints ==
    StatsAnswered => resp.body.total_points = PointsOver(ValidRecs(req.user_id))

C3_Witness ==
    /\ StatsAnswered
    /\ resp.body.total_points = 2 * REWARD_POINTS
    /\ \E j, k \in ValidRecs(req.user_id) :
          /\ j # k
          /\ progress[j].date.ord = progress[k].date.ord
          /\ ~progress[j].completed

\* The stored records without those whose date names no calendar day.
WellFormed(recs) == SelectSeq(recs, LAMBDA r : IsCalendarDate(r.date))

\* C4: a record whose day names no calendar date is excluded from all three
\* statistics and raises nothing: the answer is the one computed on the
\* records with the malformed ones removed.
C4_MalformedExcluded ==
    req.op = "progress_stats" =>
        resp = Ok(ComputeStats(
                    get_documents(WellFormed(progress), [user_id |-> req.user_id]),
                    today))

C4_Witness ==
    /\ StatsAnswered
    /\ \E k \in 1..Len(progress) :
          /\ progress[k].user_id = req.user_id
          /\ progress[k].date = DateStr("text", 0)
          /\ progress[k].completed
          /\ progress[k].points_earned # Missing
    /\ \E k \in 1..Len(progress) :
          /\ progress[k].user_id = req.user_id
          /\ progress[k].date = Missing
    /\ resp.body.total_points = 0

(***************************************************************************)
(* Claims about recorded completions (SpecProgress).                       *)
(***************************************************************************)
\* The requests of user u that have inserted their document.
Done(u) == {k \in 1..Len(reqs) : reqs[k].pc = "done" /\ reqs[k].user_id = u}

\* A request that passes its first step holds one document: completed, worth
\* 10 points, dated the given day, or the current day when none is given.
C6_Built ==
    Len(reqs') > Len(reqs) =>
        LET r == reqs'[Len(reqs')]
        IN r.doc = [user_id |-> r.user_id,
                    date |-> DateStr("iso", IF r.date = NoneV THEN today ELSE r.date.ord),
                    completed |-> TRUE,
                    points_earned |-> Int_(10)]

\* The store grows only by a request inserting its document, once.
C6_Appended ==
    /\ \A k \in 1..Len(reqs) :
          (reqs[k].pc = "insert" /\ reqs'[k].pc = "done")
              => progress' = Append(progress, reqs[k].doc)
    /\ progress' # progress
          => \E k \in 1..Len(reqs) : reqs[k].pc = "insert" /\ reqs'[k].pc = "done"

\* What progress_stats answers after the completions of a user.
C6_Reported ==
    (req'.op = "progress_stats" /\ today' = today) =>
        /\ resp'.status = 200
        /\ resp'.body.total_points = 10 * Cardinality(Done(req'.user_id))
        /\ resp'.body.days_completed =
              Cardinality({reqs[k].doc.date.ord : k \in Done(req'.user_id)})

IsNumeric(v) == v.kind \in {"float", "numstr"}

\* An item of the list carries a qty or price that is no number.
HasNonNumeric(items) ==
    \E i \in 1..Len(items) :
        \/ items[i].qty # Missing /\ ~IsNumeric(items[i].qty)
        \/ items[i].price # Missing /\ ~IsNumeric(items[i].price)

\* qty x price of an item in sixty-fourths, an absent qty counting 1 and an
\* absent price 0.
LineAmount(item) ==
    (IF item.qty = Missing THEN 8 ELSE item.qty.e8)
        * (IF item.price = Missing THEN 0 ELSE item.price.e8)

RECURSIVE ExactTotal(_)
ExactTotal(items) ==
    IF items = <<>> THEN 0 ELSE LineAmount(items[1]) + ExactTotal(Tail(items))

\* c hundredths is the exact amount t64 rounded to 2 decimal places: no
\* hundredth is nearer.
IsRounded(c, t64) ==
    /\ 2 * (64 * c - 100 * t64) <= 64
    /\ 2 * (100 * t64 - 64 * c) <= 64

\* C5: every order is stored with, and returns, a total_amount equal to the
\* sum over its items of qty x price rounded to 2 decimal places, an absent
\* qty counting 1 and an absent price 0; no items give 0.00.  (A sum with a
\* NaN factor is NaN.)
C5_OrderTotal ==
    /\ \A k \in 1..Len(order) :
          IF HasNonNumeric(order[k].items)
          THEN order[k].total_amount = NaN
          ELSE /\ order[k].total_amount.kind = "money"
               /\ IsRounded(order[k].total_amount.cents, ExactTotal(order[k].items))
               /\ order[k].items = <<>> => order[k].total_amount.cents = 0
    /\ (req.op = "create_order" /\ resp.status = 200) =>
          /\ resp.body.id = Len(order)
          /\ order[Len(order)].items = req.payload.items
          /\ resp.body.total_amount = order[Len(order)].total_amount

C5_Witness ==
    /\ req.op = "create_order"
    /\ resp.status = 200
    /\ Len(req.payload.items) = 2
    /\ \E i \in 1..2 : req.payload.items[i].qty = Missing
    /\ \E i \in 1..2 : req.payload.items[i].price = Missing
    /\ resp.body.total_amount = Money(62)

\* C8: with a non-numeric qty or price in an item, create_order fails with
\* an error instead of treating the value as zero, and creates no order
\* document: the store is unchanged.
C8_NonNumericFails ==
    [][(req'.op = "create_order" /\ HasNonNumeric(req'.payload.items))
          => (resp'.status = 500 /\ store' = store)]_vars

(***************************************************************************)
(* Claims about localized reads (SpecContent).                             *)
(***************************************************************************)
\* The stored key of a logical field in a language.
FieldKey ==
    [title |-> [en |-> "title_en", zh |-> "title_zh"],
     passage |-> [en |-> "passage_en", zh |-> "passage_zh"],
     content |-> [en |-> "content_en", zh |-> "content_zh"],
     reflection_prompt |-> [en |-> "reflection_prompt_en", zh |-> "reflection_prompt_zh"],
     description |-> [en |-> "description_en", zh |-> "description_zh"]]

DevotionalFields == {"title", "passage", "content", "reflection_prompt"}

ProductFields == {"title", "description"}

\* The view shows, for each of the fields, the record's value in the language.
ShowsLanguage(view, record, fields, locale) ==
    \A f \in fields : view[f] = record[FieldKey[f][locale]]

\* The first stored devotional of a date text.
HasDevotional(datestr) == \E k \in 1..Len(devotional) : devotional[k].date = datestr

FirstDevotional(datestr) ==
    devotional[CHOOSE k \in 1..Len(devotional) :
                 /\ devotional[k].date = datestr
                 /\ \A j \in 1..(k - 1) : devotional[j].date # datestr]

C9_Today ==
    (/\ req'.op = "get_today_devotional"
     /\ devotional' = devotional /\ today' = today
     /\ HasDevotional(DateStr("iso", today))) =>
        /\ resp'.status = 200
        /\ ShowsLanguage(resp'.body, FirstDevotional(DateStr("iso", today)),
                         DevotionalFields, req'.locale)

C9_ByDate ==
    (/\ req'.op = "get_devotional_by_date"
     /\ devotional' = devotional
     /\ HasDevotional(req'.qdate)) =>
        /\ resp'.status = 200
        /\ ShowsLanguage(resp'.body, FirstDevotional(req'.qdate),
                         DevotionalFields, req'.locale)

C9_Products ==
    (req'.op = "list_products" /\ product' = product) =>
        /\ resp'.status = 200
        /\ Len(resp'.body) = Len(product)
        /\ \A k \in 1..Len(product) :
              ShowsLanguage(resp'.body[k], product[k], ProductFields, req'.locale)

\* C9: for every bilingual devotional or product record and every locale in
\* {en, zh}, the read endpoints return for each logical field the value of
\* the field with the matching suffix, never the other language's value.
C9_LocaleProjection == [][C9_Today /\ C9_ByDate /\ C9_Products]_vars

C9_Witness ==
    /\ req.op = "get_today_devotional"
    /\ req.locale = "zh"
    /\ resp.status = 200
    /\ HasDevotional(DateStr("iso", today))
    /\ FirstDevotional(DateStr("iso", today)).passage_en # NoneV
    /\ resp.body.passage = NoneV
    /\ resp.body.title = Str("zh: Hope")

(***************************************************************************)
(* Claims about the whole API (Spec).                                      *)
(***************************************************************************)
ApiOps ==
    {"get_today_devotional", "get_devotional_by_date", "create_devotional",
     "complete_today", "progress_stats", "list_products", "create_product",
     "create_order"}

\* C7: with the database handle absent, every /api operation answers with
\* the error of the boundary layer, computes no result and creates or reads
\* no document.
C7_StoreUnavailable ==
    [][(db = "None" /\ req'.op \in ApiOps)
          => (/\ resp' = [status |-> 500, detail |-> "Database not available"]
              /\ store' = store
              /\ reqs' = reqs)]_vars

C7_Witness ==
    /\ db = "None"
    /\ req.op = "create_order"
    /\ ~HasNonNumeric(req.payload.items)
    /\ resp.status = 500
    /\ order = <<>>

\* s is an initial segment of t.
IsPrefix(s, t) == Len(s) <= Len(t) /\ SubSeq(t, 1, Len(s)) = s

\* What progress_stats reports for user u on the records recs.
Reported(recs, u) == ComputeStats(get_documents(recs, [user_id |-> u]), today)

\* C10: completion records are append-only, no operation changes or deletes
\* an existing one and progress_stats writes nothing; so a user's
\* days_completed and total_points as reported never decrease.
C10_AppendOnly ==
    [][/\ IsPrefix(progress, progress')
       /\ req'.op = "progress_stats" => store' = store
       /\ progress' # progress =>
             \A u \in Users :
                 /\ Reported(progress', u).days_completed
                       >= Reported(progress, u).days_completed
                 /\ Reported(progress', u).total_points
                       >= Reported(progress, u).total_points]_vars

C10_Witness ==
    /\ Len(progress) = 2
    /\ progress[1].date # progress[2].date
    /\ req.op = "progress_stats"
    /\ resp.status = 200
    /\ resp.body.days_completed = 2
    /\ order # <<>>
    /\ devotional # <<>>

====
